---- MODULE Spec2Model ----
(***************************************************************************)
(* Model of the gamer-boy game-listing application: the query layer over   *)
(* the games / categories / game_categories tables, the GET /games route,  *)
(* the POST /ratings/{gameId} handler and the in-memory rate limiter.      *)
(*                                                                         *)
(* Strings whose characters matter (titles, search text) are sequences of  *)
(* one-character strings; slugs and fingerprints are atoms.  An optional   *)
(* JavaScript value is a sequence of length 0 (undefined) or 1.            *)
(***************************************************************************)
EXTENDS Integers, Sequences, FiniteSets, TLC

VARIABLES
  games, categories, gameCategories,  \* the catalogue tables
  req, resp,                          \* the call in progress and its result
  ratings,                            \* the ratings table, in insertion order
  pc, hreq, existing, hresp,          \* the POST /ratings handler instances
  latest,                             \* history: last accepted rating per pair
  now, rateLimitStore,                \* the clock and the rate-limit map
  ticks, window, made,                \* history of the limiter's run
  filters, items, curPage, hasMore, isLoading,  \* InfiniteScroll props, state
  closure,                            \* the state its callbacks captured
  inflight,                           \* fetchMore calls not yet settled
  failure,                            \* history: the last failed fetchMore
  recentlyPlayed,                     \* localStorage: the recently-played list
  viewed,                             \* history: the game pages viewed
  listed,                             \* the games the recently-played page shows
  ratingInput, ratingStats,           \* RatingInput state, GamePageClient state
  submission,                         \* the rating POST in progress, if any
  posts,                              \* the rating POSTs sent and not answered
  favorites, favCalls,                \* localStorage: the favorites; history
  cache, fetching,                    \* the client caches and their fetches
  unswept                             \* history: the map had no sweep ever run

dataVars == <<games, categories, gameCategories>>
queryVars == <<games, categories, gameCategories, req, resp>>
ratingVars == <<ratings, pc, hreq, existing, hresp, latest>>
limiterVars == <<now, rateLimitStore, ticks, window, made, unswept>>
scrollVars ==
  <<filters, items, curPage, hasMore, isLoading, closure, inflight, failure>>
storageVars == <<recentlyPlayed, viewed, listed>>
widgetVars == <<ratingInput, ratingStats, submission, posts>>
favoriteVars == <<favorites, favCalls>>
cacheVars == <<cache, fetching>>
clientVars == <<scrollVars, storageVars, widgetVars, favoriteVars, cacheVars>>
serverVars == <<queryVars, ratingVars, limiterVars>>
vars == <<games, categories, gameCategories, req, resp,
          ratings, pc, hreq, existing, hresp, latest,
          now, rateLimitStore, ticks, window, made, unswept,
          filters, items, curPage, hasMore, isLoading, closure, inflight,
          failure, recentlyPlayed, viewed, listed, ratingInput, ratingStats,
          submission, posts, favorites, favCalls, cache, fetching>>

(***************************************************************************)
(* Bounds of the model.                                                    *)
(***************************************************************************)
MaxGames == 3
MaxLinks == 2
MaxIds == 3
MaxPage == 4
MaxRelatedLinks == 5

(***************************************************************************)
(* Generic helpers.                                                        *)
(***************************************************************************)
None == << >>
Some(x) == <<x>>
IsSome(o) == Len(o) = 1
Min(a, b) == IF a < b THEN a ELSE b
CeilDiv(a, b) == (a + b - 1) \div b
Range(s) == {s[i] : i \in 1..Len(s)}

\* [...new Set(xs)]: first occurrences, in order
RECURSIVE Distinct(_)
Distinct(s) ==
  IF s = << >> THEN << >>
  ELSE LET init == Distinct(SubSeq(s, 1, Len(s) - 1))
           x == s[Len(s)]
       IN IF x \in Range(init) THEN init ELSE Append(init, x)

\* Array.prototype.slice(0, n)
Slice0(s, n) == SubSeq(s, 1, Min(n, Len(s)))

(***************************************************************************)
(* The data the model is run on.                                           *)
(***************************************************************************)
GameIds == 1..MaxGames
AbsentId == MaxGames + 1

\* title of the game with a given id (the ingestion gives each game one)
TitleOf(id) ==
  CASE id = 1 -> <<"S", "u">>
    [] id = 2 -> <<"u", "s">>
    [] id = 3 -> <<"a">>
    [] OTHER -> <<"s", "a">>

CategoryRows ==
  << [id |-> 1, slug |-> "puzzle"], [id |-> 2, slug |-> "action"] >>
CategoryIds == {CategoryRows[i].id : i \in 1..Len(CategoryRows)}

(***************************************************************************)
(* SQLite LIKE: '%' matches any run, '_' any one character, letters are    *)
(* compared without regard to ASCII case.                                  *)
(***************************************************************************)
Lower(c) ==
  CASE c = "S" -> "s"
    [] c = "U" -> "u"
    [] c = "A" -> "a"
    [] OTHER -> c

RECURSIVE like(_, _)
like(str, pat) ==
  IF pat = << >> THEN str = << >>
  ELSE IF Head(pat) = "%"
       THEN like(str, Tail(pat)) \/ (str # << >> /\ like(Tail(str), pat))
  ELSE IF str = << >> THEN FALSE
  ELSE IF Head(pat) = "_" THEN like(Tail(str), Tail(pat))
  ELSE Lower(Head(pat)) = Lower(Head(str)) /\ like(Tail(str), Tail(pat))

(***************************************************************************)
(* Query layer (modules/games/lib/games.ts).                               *)
(***************************************************************************)
\* db.select().from(games).where(P): rows in the order the store holds them
SelectGames(P(_)) == SelectSeq(games, P)

attachCategoriesToGames(gamesList) ==
  IF Len(gamesList) = 0 THEN << >>
  ELSE
    LET gameIds == {gamesList[i].id : i \in 1..Len(gamesList)}
        rels == SelectSeq(gameCategories, LAMBDA r : r.gameId \in gameIds)
        \* leftJoin: the category row, or none when the id is unknown
        CatOf(r) == SelectSeq(categories, LAMBDA c : c.id = r.categoryId)
        CatsOf(gid) ==
          LET mine == SelectSeq(rels,
                        LAMBDA r : r.gameId = gid /\ Len(CatOf(r)) > 0)
          IN [i \in 1..Len(mine) |-> CatOf(mine[i])[1]]
    IN [i \in 1..Len(gamesList) |->
          [id |-> gamesList[i].id, title |-> gamesList[i].title,
           categories |-> CatsOf(gamesList[i].id)]]

\* the game ids linked to one of the category slugs of a filter
CategoryGameIds(categoryFilter) ==
  LET foundCategories ==
        SelectSeq(categories, LAMBDA c : c.slug \in Range(categoryFilter))
      categoryIds == {foundCategories[i].id : i \in 1..Len(foundCategories)}
      relations ==
        SelectSeq(gameCategories, LAMBDA r : r.categoryId \in categoryIds)
  IN [found |-> Len(foundCategories),
      gameIds |-> Distinct([i \in 1..Len(relations) |-> relations[i].gameId])]

\* the WHERE clause getGames builds; search and categoryFilter are optional
WhereClause(search, categoryFilter, g) ==
  LET hasCat == IsSome(categoryFilter) /\ Len(categoryFilter[1]) > 0
      hasSearch == IsSome(search) /\ search[1] # << >>
  IN /\ hasSearch => like(g.title, <<"%">> \o search[1] \o <<"%">>)
     /\ hasCat => g.id \in Range(CategoryGameIds(categoryFilter[1]).gameIds)

\* a page offset that skips the first page
Offset_skipFirst(page, limit) == page * limit

Offset(page, limit) == (page - 1) * limit

getGames(search, categoryFilter, page, limit) ==
  LET offset == Offset(page, limit)
      hasCat == IsSome(categoryFilter) /\ Len(categoryFilter[1]) > 0
      cg == IF hasCat THEN CategoryGameIds(categoryFilter[1])
            ELSE [found |-> 0, gameIds |-> << >>]
      matching ==
        SelectGames(LAMBDA g : WhereClause(search, categoryFilter, g))
      totalCount == Len(matching)
      paginatedGames ==
        SubSeq(matching, offset + 1, Min(offset + limit, Len(matching)))
  IN IF hasCat /\ cg.found = 0 THEN [games |-> << >>, totalCount |-> 0]
     ELSE IF hasCat /\ Len(cg.gameIds) = 0
       THEN [games |-> << >>, totalCount |-> 0]
     ELSE IF Len(paginatedGames) = 0 THEN [games |-> << >>, totalCount |-> 0]
     ELSE [games |-> attachCategoriesToGames(paginatedGames),
           totalCount |-> totalCount]

\* a bulk fetch that hands back the rows as the store returned them
getGamesByIds_storeOrder(ids) ==
  attachCategoriesToGames(SelectGames(LAMBDA g : g.id \in Range(ids)))

getGamesByIds(ids) ==
  IF Len(ids) = 0 THEN << >>
  ELSE
    LET selectedGames == SelectGames(LAMBDA g : g.id \in Range(ids))
        gamesWithCategories == attachCategoriesToGames(selectedGames)
        \* new Map(...): the last entry of a key wins
        Get(id) ==
          SelectSeq(gamesWithCategories, LAMBDA g : g.id = id)
        mapped == [i \in 1..Len(ids) |-> Get(ids[i])]
        present == SelectSeq(mapped, LAMBDA m : Len(m) > 0)
    IN IF Len(selectedGames) = 0 THEN << >>
       ELSE [i \in 1..Len(present) |-> present[i][Len(present[i])]]

getRelatedGames(gameId, limit) ==
  LET gameRelations == SelectSeq(gameCategories, LAMBDA r : r.gameId = gameId)
      categoryIds == {gameRelations[i].categoryId : i \in 1..Len(gameRelations)}
      relatedRelations ==
        SelectSeq(gameCategories,
                  LAMBDA r : r.categoryId \in categoryIds /\ r.gameId # gameId)
      relatedGameIds ==
        Slice0(Distinct([i \in 1..Len(relatedRelations) |->
                           relatedRelations[i].gameId]), limit)
      relatedGames == SelectGames(LAMBDA g : g.id \in Range(relatedGameIds))
  IN IF Len(gameRelations) = 0 THEN << >>
     ELSE IF Len(relatedGameIds) = 0 THEN << >>
     ELSE attachCategoriesToGames(relatedGames)

(***************************************************************************)
(* Reading pages 1..ceil(total/limit) one after the other, as a client of  *)
(* getGames does, and concatenating what they return.                      *)
(***************************************************************************)
RECURSIVE ConcatPages(_, _, _, _)
ConcatPages(search, categoryFilter, limit, n) ==
  IF n = 0 THEN << >>
  ELSE ConcatPages(search, categoryFilter, limit, n - 1)
         \o getGames(search, categoryFilter, n, limit).games

(***************************************************************************)
(* GET /games (app/api/games/route.ts).  A numeric query parameter is the  *)
(* number its decimal digits denote; the categories parameter is a         *)
(* sequence of lexemes in which "," is the separator.                      *)
(***************************************************************************)
DEFAULT_PAGE == 1
DEFAULT_PAGE_SIZE == 12
MAX_LIMIT == 100

\* String.prototype.split(",") on a parameter whose segments hold at most
\* one lexeme; an empty segment is the empty string
RECURSIVE SplitComma(_)
SplitComma(s) ==
  LET Seg(x) == IF x = << >> THEN "" ELSE x[1]
      commas == {i \in 1..Len(s) : s[i] = ","}
  IN IF commas = {} THEN << Seg(s) >>
     ELSE LET i == CHOOSE j \in commas : \A k \in commas : j <= k
          IN << Seg(SubSeq(s, 1, i - 1)) >>
               \o SplitComma(SubSeq(s, i + 1, Len(s)))

GET_games(pageParam, limitParam, qParam, categoriesParam) ==
  LET page == IF IsSome(pageParam) THEN pageParam[1] ELSE DEFAULT_PAGE
      limit == IF IsSome(limitParam) THEN limitParam[1] ELSE DEFAULT_PAGE_SIZE
      searchQuery ==
        IF IsSome(qParam) /\ qParam[1] # << >> THEN qParam ELSE None
      categoryFilter ==
        IF IsSome(categoriesParam) /\ categoriesParam[1] # << >>
        THEN Some(SelectSeq(SplitComma(categoriesParam[1]),
                            LAMBDA x : x # ""))
        ELSE None
      r == getGames(searchQuery, categoryFilter, page, limit)
  IN [status |-> 200,
      games |-> r.games,
      pagination |-> [page |-> page, limit |-> limit,
                      total |-> r.totalCount,
                      hasMore |-> page * limit < r.totalCount]]

(***************************************************************************)
(* Rate limiter (shared/lib/rate-limit.ts).  Times are in milliseconds.    *)
(* An entry of the map is a record; present = FALSE stands for a key the   *)
(* map does not hold.                                                      *)
(***************************************************************************)
WINDOW_SECONDS == 60
STRICT_MAX == 10
MODERATE_MAX == 100
WindowMs == WINDOW_SECONDS * 1000

ClientKeys == {"ip1", "unknown"}
NoEntry == [present |-> FALSE, count |-> 0, resetTime |-> 0]

\* request headers: x-forwarded-for as the list of its comma-separated
\* entries (empty when the header is missing), x-real-ip optional
ForwardedHeaders == [forwarded |-> <<"ip1", "ip2">>, realIp |-> None]
RealIpHeaders == [forwarded |-> << >>, realIp |-> Some("ip1")]
NoHeaders == [forwarded |-> << >>, realIp |-> None]

\* a limiter that keeps one bucket for all clients
getClientIdentifier_oneBucket(headers) == "unknown"

getClientIdentifier(headers) ==
  IF headers.forwarded # << >> THEN headers.forwarded[1]
  ELSE IF IsSome(headers.realIp) THEN headers.realIp[1]
  ELSE "unknown"

\* a limiter whose window is over as soon as its reset time is reached
WindowExpired_atReset(entry, t) == entry.resetTime <= t

WindowExpired(entry, t) == entry.resetTime < t

\* a limiter that counts the requests it rejects
rateLimit_countRejected(store, identifier, t, maxRequests) ==
  LET entry == store[identifier]
      fresh == [present |-> TRUE, count |-> 1,
                resetTime |-> t + WINDOW_SECONDS * 1000]
  IN IF entry.present
     THEN IF WindowExpired(entry, t)
          THEN [allowed |-> TRUE, retryAfter |-> 0,
                store |-> [store EXCEPT ![identifier] = fresh]]
          ELSE [allowed |-> entry.count < maxRequests,
                retryAfter |-> IF entry.count >= maxRequests
                               THEN CeilDiv(entry.resetTime - t, 1000) ELSE 0,
                store |-> [store EXCEPT ![identifier].count = entry.count + 1]]
     ELSE [allowed |-> TRUE, retryAfter |-> 0,
           store |-> [store EXCEPT ![identifier] = fresh]]

\* the wrapper rateLimit(handler, options) up to the call of the handler:
\* whether the handler is called, the retryAfter of the error, the new map
rateLimit(store, identifier, t, maxRequests) ==
  LET entry == store[identifier]
      fresh == [present |-> TRUE, count |-> 1,
                resetTime |-> t + WINDOW_SECONDS * 1000]
  IN IF entry.present
     THEN IF WindowExpired(entry, t)
          THEN [allowed |-> TRUE, retryAfter |-> 0,
                store |-> [store EXCEPT ![identifier] = fresh]]
          ELSE IF entry.count >= maxRequests
          THEN [allowed |-> FALSE,
                retryAfter |-> CeilDiv(entry.resetTime - t, 1000),
                store |-> store]
          ELSE [allowed |-> TRUE, retryAfter |-> 0,
                store |-> [store EXCEPT ![identifier].count = entry.count + 1]]
     ELSE [allowed |-> TRUE, retryAfter |-> 0,
           store |-> [store EXCEPT ![identifier] = fresh]]

\* history of a key: the start of its current window (-1: none yet) and the
\* number of its requests passed to a handler since then.  A window lasts
\* WINDOW_SECONDS from its first request; the first request after that
\* starts the next one.
NoWindow == [start |-> -1, accepted |-> 0]
InWindow(w, t) == w.start >= 0 /\ t <= w.start + WindowMs
WindowAfter(w, t, allowed) ==
  IF InWindow(w, t)
  THEN [w EXCEPT !.accepted = w.accepted + (IF allowed THEN 1 ELSE 0)]
  ELSE [start |-> t, accepted |-> IF allowed THEN 1 ELSE 0]

\* history of a key per endpoint: how many requests the key has made to the
\* endpoint in its current window, counted up to the endpoint's allowance
Endpoints == {"POST /api/ratings", "GET /api/ratings"}
NoneMade == [e \in Endpoints |-> 0]
MadeAfter(m, w, t, endpoint, allowance) ==
  LET base == IF InWindow(w, t) THEN m ELSE NoneMade
  IN [base EXCEPT ![endpoint] = Min(@ + 1, allowance)]

(***************************************************************************)
(* The wrapper as an operation of its own: a request of some client to an  *)
(* endpoint gated with maxRequests.  req keeps, from the history, whether  *)
(* the request opens a window of its key and how many requests of the key  *)
(* were passed to the handler earlier in the window; resp keeps the entry  *)
(* of the key as the wrapper left it.                                      *)
(***************************************************************************)
MaxTicks == 2

GatedRequest(headers, maxRequests) ==
  /\ req.op = "none"
  /\ LET identifier == getClientIdentifier(headers)
         rl == rateLimit(rateLimitStore, identifier, now, maxRequests)
         w == window[identifier]
     IN /\ rateLimitStore' = rl.store
        /\ window' = [window EXCEPT ![identifier] =
                        WindowAfter(w, now, rl.allowed)]
        /\ req' = [op |-> "rateLimit", identifier |-> identifier,
                   maxRequests |-> maxRequests, at |-> now,
                   opens |-> ~InWindow(w, now),
                   prior |-> IF InWindow(w, now) THEN w.accepted ELSE 0]
        /\ resp' = Some([status |-> IF rl.allowed THEN 200 ELSE 429,
                         passed |-> rl.allowed,
                         retryAfter |-> rl.retryAfter,
                         entry |-> rl.store[identifier]])
  /\ UNCHANGED <<clientVars, dataVars, ratingVars, now, ticks, made,
                 unswept>>

\* the same request, keeping the headers it carried and the map as it was
\* before and after the wrapper ran
KeyedRequest(headers, maxRequests) ==
  /\ req.op = "none"
  /\ LET identifier == getClientIdentifier(headers)
         rl == rateLimit(rateLimitStore, identifier, now, maxRequests)
     IN /\ rateLimitStore' = rl.store
        /\ window' = [window EXCEPT ![identifier] =
                        WindowAfter(window[identifier], now, rl.allowed)]
        /\ req' = [op |-> "keyed", headers |-> headers,
                   identifier |-> identifier, maxRequests |-> maxRequests,
                   at |-> now, store |-> rateLimitStore]
        /\ resp' = Some([status |-> IF rl.allowed THEN 200 ELSE 429,
                         passed |-> rl.allowed,
                         retryAfter |-> rl.retryAfter,
                         store |-> rl.store])
  /\ UNCHANGED <<clientVars, dataVars, ratingVars, now, ticks, made,
                 unswept>>

\* the same request, run as well against the map as it would be had the
\* clean-up timer never fired (unswept); req keeps whether the timer has
\* removed the entry of the key, resp keeps both outcomes
ObservedRequest(headers, maxRequests) ==
  /\ req.op = "none"
  /\ LET identifier == getClientIdentifier(headers)
         rl == rateLimit(rateLimitStore, identifier, now, maxRequests)
         ru == rateLimit(unswept, identifier, now, maxRequests)
     IN /\ rateLimitStore' = rl.store
        /\ unswept' = ru.store
        /\ req' = [op |-> "observed", identifier |-> identifier,
                   maxRequests |-> maxRequests, at |-> now,
                   swept |-> /\ ~rateLimitStore[identifier].present
                             /\ unswept[identifier].present,
                   before |-> unswept[identifier]]
        /\ resp' = Some([status |-> IF rl.allowed THEN 200 ELSE 429,
                         passed |-> rl.allowed,
                         retryAfter |-> rl.retryAfter,
                         unsweptPassed |-> ru.allowed,
                         unsweptRetryAfter |-> ru.retryAfter])
  /\ UNCHANGED <<clientVars, dataVars, ratingVars, now, ticks, window,
                 made>>

\* time passes
Tick(d) ==
  /\ ticks < MaxTicks
  /\ now' = now + d
  /\ ticks' = ticks + 1
  /\ UNCHANGED <<clientVars, queryVars, ratingVars, rateLimitStore, window,
                 made, unswept>>

\* the system clock Date.now() reads is set back (a clock correction)
ClockSetBack(d) ==
  /\ ticks < MaxTicks
  /\ now - d >= 0
  /\ now' = now - d
  /\ ticks' = ticks + 1
  /\ UNCHANGED <<clientVars, queryVars, ratingVars, rateLimitStore, window,
                 made, unswept>>

\* a clean-up that also removes the entries whose window ends now
Sweep_atReset ==
  /\ \E k \in ClientKeys :
       rateLimitStore[k].present /\ rateLimitStore[k].resetTime <= now
  /\ rateLimitStore' =
       [k \in ClientKeys |->
          IF rateLimitStore[k].present /\ rateLimitStore[k].resetTime <= now
          THEN NoEntry ELSE rateLimitStore[k]]
  /\ UNCHANGED <<clientVars, queryVars, ratingVars, now, ticks, window,
                 made, unswept>>

\* the periodic clean-up of the map
Sweep ==
  /\ \E k \in ClientKeys :
       rateLimitStore[k].present /\ rateLimitStore[k].resetTime < now
  /\ rateLimitStore' =
       [k \in ClientKeys |->
          IF rateLimitStore[k].present /\ rateLimitStore[k].resetTime < now
          THEN NoEntry ELSE rateLimitStore[k]]
  /\ UNCHANGED <<clientVars, queryVars, ratingVars, now, ticks, window,
                 made, unswept>>

(***************************************************************************)
(* Ratings (app/api/ratings/[gameId]/route.ts).  A number is held as its   *)
(* count of tenths, so 2.5 is 25 and the integer 3 is 30.                  *)
(***************************************************************************)
Handlers == {1, 2}

\* JSON values of a body: a number of the given count of tenths, a string,
\* a value of another type, a missing key
Num(tenths) == [type |-> "number", tenths |-> tenths, text |-> << >>]
Str(text) == [type |-> "string", tenths |-> 0, text |-> text]
Missing == [type |-> "undefined", tenths |-> 0, text |-> << >>]

\* a request body; json = FALSE is a body that does not parse
Body(rating, fingerprint) ==
  [json |-> TRUE, rating |-> rating, fingerprint |-> fingerprint]
MalformedBody == [json |-> FALSE, rating |-> Missing, fingerprint |-> Missing]

\* the [gameId] segment of the path: its digits as a number, or other text
GameIdParam(n) == [digits |-> TRUE, value |-> n]
NotAGameId == [digits |-> FALSE, value |-> 0]

\* submitRatingSchema: rating z.number().min(1).max(5); fingerprint
\* z.string().min(1)
submitRatingSchema(body) ==
  /\ body.rating.type = "number"
  /\ body.rating.tenths >= 10
  /\ body.rating.tenths <= 50
  /\ body.fingerprint.type = "string"
  /\ Len(body.fingerprint.text) >= 1

\* validateBody: request.json() fails on a body that does not parse
validateBody(body) == body.json /\ submitRatingSchema(body)

\* gameIdParamSchema: /^\d+$/
validateParams(gameIdParam) == gameIdParam.digits

NoRequest == [gameIdParam |-> NotAGameId, body |-> MalformedBody]
NoResponse ==
  [status |-> 0, averageRating |-> 0, totalRatings |-> 0, userRating |-> 0,
   retryAfter |-> 0]

RowsOf(gameId) == SelectSeq(ratings, LAMBDA r : r.gameId = gameId)
RowsOfPair(gameId, fingerprint) ==
  SelectSeq(ratings,
            LAMBDA r : r.gameId = gameId /\ r.userFingerprint = fingerprint)

RECURSIVE SumRatings(_)
SumRatings(rows) ==
  IF rows = << >> THEN 0 ELSE Head(rows).rating + SumRatings(Tail(rows))

\* parseFloat(avg.toFixed(1)) of avg = sum / count, everything in tenths
ToFixed1(sum, count) == (2 * sum + count) \div (2 * count)

\* the request arrives: rate limit, then route parameters, then body
PostArrive(h, headers, gameIdParam, body) ==
  /\ pc[h] = "idle"
  /\ LET identifier == getClientIdentifier(headers)
         rl == rateLimit(rateLimitStore, identifier, now, STRICT_MAX)
     IN /\ rateLimitStore' = rl.store
        /\ window' = [window EXCEPT ![identifier] =
                        WindowAfter(@, now, rl.allowed)]
        /\ made' = [made EXCEPT ![identifier] =
                      MadeAfter(@, window[identifier], now,
                                "POST /api/ratings", STRICT_MAX)]
        /\ hreq' = [hreq EXCEPT ![h] =
                      [gameIdParam |-> gameIdParam, body |-> body]]
        /\ IF ~rl.allowed
           THEN /\ hresp' = [hresp EXCEPT ![h] =
                              [NoResponse EXCEPT !.status = 429,
                                 !.retryAfter = rl.retryAfter]]
                /\ pc' = [pc EXCEPT ![h] = "done"]
                /\ UNCHANGED latest
           ELSE IF ~(validateParams(gameIdParam) /\ validateBody(body))
           THEN /\ hresp' = [hresp EXCEPT ![h] =
                              [NoResponse EXCEPT !.status = 400]]
                /\ pc' = [pc EXCEPT ![h] = "done"]
                /\ UNCHANGED latest
           ELSE /\ hresp' = hresp
                /\ pc' = [pc EXCEPT ![h] = "select"]
                /\ latest' = [latest EXCEPT
                     ![<<gameIdParam.value, body.fingerprint.text>>] =
                       body.rating.tenths]
  /\ UNCHANGED <<clientVars, queryVars, ratings, existing, now, ticks,
                 unswept>>

\* select ... where gameId and userFingerprint match, limit 1
PostSelect(h) ==
  /\ pc[h] = "select"
  /\ LET rows == RowsOfPair(hreq[h].gameIdParam.value,
                            hreq[h].body.fingerprint.text)
     IN existing' = [existing EXCEPT ![h] =
                       IF Len(rows) > 0 THEN rows[1].id ELSE 0]
  /\ pc' = [pc EXCEPT ![h] = "write"]
  /\ UNCHANGED <<clientVars, queryVars, ratings, hreq, hresp, latest,
                 limiterVars>>

RECURSIVE UpdateRows(_, _, _)
UpdateRows(rows, id, value) ==
  IF rows = << >> THEN << >>
  ELSE <<IF Head(rows).id = id THEN [Head(rows) EXCEPT !.rating = value]
         ELSE Head(rows)>> \o UpdateRows(Tail(rows), id, value)

\* an update that leaves the stored value as it was
UpdateRating_keepValue(id, value) == ratings

\* update ratings set rating = value where id = existingRating[0].id
UpdateRating(id, value) == UpdateRows(ratings, id, value)

\* insert into ratings: the id is auto-incremented, and no constraint makes
\* (gameId, userFingerprint) unique
InsertRating(gameId, fingerprint, value) ==
  Append(ratings, [id |-> Len(ratings) + 1, gameId |-> gameId,
                   userFingerprint |-> fingerprint, rating |-> value])

PostWrite(h) ==
  /\ pc[h] = "write"
  /\ ratings' = IF existing[h] # 0
                THEN UpdateRating(existing[h], hreq[h].body.rating.tenths)
                ELSE InsertRating(hreq[h].gameIdParam.value,
                                  hreq[h].body.fingerprint.text,
                                  hreq[h].body.rating.tenths)
  /\ pc' = [pc EXCEPT ![h] = "stats"]
  /\ UNCHANGED <<clientVars, queryVars, hreq, existing, hresp, latest,
                 limiterVars>>

\* select AVG(rating), COUNT(*) where gameId matches; the response
PostStats(h) ==
  /\ pc[h] = "stats"
  /\ LET rows == RowsOf(hreq[h].gameIdParam.value)
     IN hresp' = [hresp EXCEPT ![h] =
          [status |-> 200,
           averageRating |-> ToFixed1(SumRatings(rows), Len(rows)),
           totalRatings |-> Len(rows),
           userRating |-> hreq[h].body.rating.tenths,
           retryAfter |-> 0]]
  /\ pc' = [pc EXCEPT ![h] = "done"]
  /\ UNCHANGED <<clientVars, queryVars, ratings, hreq, existing, latest,
                 limiterVars>>

\* the response has been sent
PostReturn(h) ==
  /\ pc[h] = "done"
  /\ pc' = [pc EXCEPT ![h] = "idle"]
  /\ hreq' = [hreq EXCEPT ![h] = NoRequest]
  /\ hresp' = [hresp EXCEPT ![h] = NoResponse]
  /\ existing' = [existing EXCEPT ![h] = 0]
  /\ UNCHANGED <<clientVars, queryVars, ratings, latest, limiterVars>>

RatingGames == {1, 2}
FpA == <<"f", "A">>
FpB == <<"f", "B">>
Fingerprints == {FpA, FpB}

RatingsInit ==
  /\ ratings = << >>
  /\ pc = [h \in Handlers |-> "idle"]
  /\ hreq = [h \in Handlers |-> NoRequest]
  /\ existing = [h \in Handlers |-> 0]
  /\ hresp = [h \in Handlers |-> NoResponse]
  /\ latest = [p \in RatingGames \X Fingerprints |-> 0]

LimiterInit ==
  /\ now = 0
  /\ rateLimitStore = [k \in ClientKeys |-> NoEntry]
  /\ ticks = 0
  /\ window = [k \in ClientKeys |-> NoWindow]
  /\ made = [k \in ClientKeys |-> NoneMade]
  /\ unswept = [k \in ClientKeys |-> NoEntry]

(***************************************************************************)
(* InfiniteScroll (shared/ui/infinite-scroll/infinite-scroll.tsx) under    *)
(* GamesGridInfinite.  The component state is items, page (curPage here),  *)
(* hasMore and isLoading; loadMore and the observer callback are closures over the     *)
(* state of the render that created them, kept in closure until the next   *)
(* render replaces them.  An item is the filter set and page it came from. *)
(***************************************************************************)
MaxInflight == 2
MaxScrollPage == 4

FilterSets == {"q=a", "q=b"}
\* the number of pages the server holds for a filter set
LastPage(f) == IF f = "q=a" THEN 3 ELSE 2

\* the games of one page of a filter set, as GET /api/games returns them
PageItems(f, p) ==
  IF p <= LastPage(f) THEN <<[filters |-> f, page |-> p]>> ELSE << >>
\* pagination.hasMore of that response (one game per page)
PageHasMore(f, p) == p < LastPage(f)

Snapshot(f, l, h, p) ==
  [filters |-> f, isLoading |-> l, hasMore |-> h, page |-> p]
\* history since the last reset: the last failed fetchMore, and whether the
\* end of the list (hasMore false, isLoading clear) has been reached
NoFailure == [happened |-> FALSE, page |-> 0, len |-> 0, ended |-> FALSE]

\* the sentinel becomes visible: the observer callback, then loadMore up to
\* its await, both reading the state their render captured
SentinelVisible ==
  /\ closure.hasMore /\ ~closure.isLoading
  /\ ~(closure.isLoading \/ ~closure.hasMore)
  /\ Len(inflight) < MaxInflight
  /\ curPage + Len(inflight) < MaxScrollPage
  /\ isLoading' = TRUE
  /\ inflight' = Append(inflight,
                        [filters |-> closure.filters,
                         page |-> closure.page + 1,
                         afterFailure |-> failure.happened,
                         afterEnd |-> failure.ended])
  /\ UNCHANGED <<filters, items, curPage, hasMore, closure, failure>>

\* React renders the pending state and re-runs the observer effect
Rerender ==
  /\ closure # Snapshot(filters, isLoading, hasMore, curPage)
  /\ closure' = Snapshot(filters, isLoading, hasMore, curPage)
  /\ UNCHANGED <<filters, items, curPage, hasMore, isLoading, inflight,
                 failure>>

Without(s, i) == SubSeq(s, 1, i - 1) \o SubSeq(s, i + 1, Len(s))

\* the awaited fetchMore(page + 1) of a loadMore call resolves
FetchResolved(i) ==
  /\ i \in 1..Len(inflight)
  /\ items' = items \o PageItems(inflight[i].filters, inflight[i].page)
  /\ curPage' = curPage + 1
  /\ hasMore' = PageHasMore(inflight[i].filters, inflight[i].page)
  /\ isLoading' = FALSE
  /\ inflight' = Without(inflight, i)
  /\ failure' = [failure EXCEPT
                   !.ended = @ \/ ~PageHasMore(inflight[i].filters,
                                               inflight[i].page)]
  /\ UNCHANGED <<filters, closure>>

\* it rejects (network error, unreadable body)
FetchFailed(i) ==
  /\ i \in 1..Len(inflight)
  /\ hasMore' = FALSE
  /\ isLoading' = FALSE
  /\ inflight' = Without(inflight, i)
  /\ failure' = [happened |-> TRUE, page |-> curPage, len |-> Len(items),
                 ended |-> TRUE]
  /\ UNCHANGED <<filters, items, curPage, closure>>

\* the filters change: the parent passes new initialItems and a new
\* fetchMore; the render captures them with the state as it is, then the
\* reset effect runs
FilterChange(f) ==
  /\ f # filters
  /\ filters' = f
  /\ closure' = Snapshot(f, isLoading, hasMore, curPage)
  /\ items' = PageItems(f, 1)
  /\ curPage' = 1
  /\ hasMore' = (Len(PageItems(f, 1)) > 0)
  /\ isLoading' = FALSE
  /\ failure' = NoFailure
  /\ UNCHANGED inflight

ScrollInit ==
  /\ filters = "q=a"
  /\ items = PageItems("q=a", 1)
  /\ curPage = 1
  /\ hasMore = (Len(PageItems("q=a", 1)) > 0)
  /\ isLoading = FALSE
  /\ closure = Snapshot("q=a", FALSE, TRUE, 1)
  /\ inflight = << >>
  /\ failure = NoFailure

(***************************************************************************)
(* Recently played (shared/lib/local-storage.ts): the list stored under    *)
(* gamerboy_recently_played, written when a game page mounts and read by   *)
(* the recently-played page.  An item is a game id and the time it was     *)
(* added.                                                                  *)
(***************************************************************************)
MAX_RECENTLY_PLAYED == 20
MaxViewedIds == 22
MaxRepeats == 2

ItemIds(list) == [i \in 1..Len(list) |-> list[i].id]

\* addRecentlyPlayed without the removal of the old item of the id
addRecentlyPlayed_keepOld(list, gameId, t) ==
  LET unshifted == <<[id |-> gameId, timestamp |-> t]>> \o list
  IN IF Len(unshifted) > MAX_RECENTLY_PLAYED
     THEN SubSeq(unshifted, 1, MAX_RECENTLY_PLAYED)
     ELSE unshifted

\* the list addRecentlyPlayed(gameId) stores at time t, given the one stored
addRecentlyPlayed(list, gameId, t) ==
  LET filtered == SelectSeq(list, LAMBDA item : item.id # gameId)
      unshifted == <<[id |-> gameId, timestamp |-> t]>> \o filtered
  IN IF Len(unshifted) > MAX_RECENTLY_PLAYED
     THEN SubSeq(unshifted, 1, MAX_RECENTLY_PLAYED)
     ELSE unshifted

\* items.sort((a, b) => b.timestamp - a.timestamp): newest first, items of
\* equal timestamp in the order they had (Array.prototype.sort is stable)
SortByTimestampDesc(list) ==
  LET Before(j, i) ==
        \/ list[j].timestamp > list[i].timestamp
        \/ list[j].timestamp = list[i].timestamp /\ j < i
      Rank(i) == 1 + Cardinality({j \in 1..Len(list) : Before(j, i)})
  IN [k \in 1..Len(list) |->
        list[CHOOSE i \in 1..Len(list) : Rank(i) = k]]

getRecentlyPlayedIds(list) == ItemIds(SortByTimestampDesc(list))

NoView == [id |-> 0, before |-> << >>, distinct |-> 0, repeats |-> 0]

\* a game page mounts: useTrackRecentlyPlayed(gameId).  Games are first
\* viewed in the order of their ids; the recently-played page, if it was
\* open, has been left for the game page.
ViewGame(gameId) ==
  /\ gameId \in {games[i].id : i \in 1..Len(games)}
  /\ gameId <= viewed.distinct + 1
  /\ gameId <= viewed.distinct => viewed.repeats < MaxRepeats
  /\ recentlyPlayed' = addRecentlyPlayed(recentlyPlayed, gameId, now)
  /\ viewed' = [id |-> gameId,
                before |-> ItemIds(recentlyPlayed),
                distinct |-> IF gameId > viewed.distinct
                             THEN gameId ELSE viewed.distinct,
                repeats |-> IF gameId > viewed.distinct
                            THEN viewed.repeats ELSE viewed.repeats + 1]
  /\ listed' = << >>
  /\ UNCHANGED <<serverVars, scrollVars, widgetVars, favoriteVars, cacheVars>>

\* the recently-played page mounts or becomes visible: fetchRecentlyPlayed,
\* with the by-ids request answered (ok) or failing
OpenRecentlyPlayed(ok) ==
  /\ \E ids \in {getRecentlyPlayedIds(recentlyPlayed)} :
       \E data \in {getGamesByIds(ids)} :
         LET found == {data[i].id : i \in 1..Len(data)}
             \* ids.map((id) => data.games.find(...)).filter(Boolean), each
             \* game kept as its id
             orderedGames == SelectSeq(ids, LAMBDA id : id \in found)
         IN listed' = IF Len(ids) = 0 \/ ~ok THEN << >> ELSE orderedGames
  /\ UNCHANGED <<serverVars, scrollVars, widgetVars, favoriteVars, cacheVars,
                 recentlyPlayed, viewed>>

StorageInit ==
  /\ recentlyPlayed = << >>
  /\ viewed = NoView
  /\ listed = << >>

(***************************************************************************)
(* Favorites (shared/lib/local-storage.ts): the id list stored under       *)
(* gamerboy_favorites.                                                     *)
(***************************************************************************)
MaxFavoriteIds == 4
FavoriteIds == 1..MaxFavoriteIds

\* addFavorite without the includes test
addFavorite_always(list, gameId) == Append(list, gameId)

\* the list addFavorite(gameId) leaves stored, given the one stored
addFavorite(list, gameId) ==
  IF \E i \in 1..Len(list) : list[i] = gameId THEN list
  ELSE Append(list, gameId)

removeFavorite(list, gameId) == SelectSeq(list, LAMBDA id : id # gameId)

isFavorite(list, gameId) == \E i \in 1..Len(list) : list[i] = gameId

\* history: the last call, the list before it, and the ids whose last call
\* was addFavorite
NoFavCall == [op |-> "none", id |-> 0, before |-> << >>, added |-> {}]

CallAddFavorite(gameId) ==
  /\ favorites' = addFavorite(favorites, gameId)
  /\ favCalls' = [op |-> "add", id |-> gameId, before |-> favorites,
                  added |-> favCalls.added \cup {gameId}]
  /\ UNCHANGED <<serverVars, scrollVars, storageVars, widgetVars, cacheVars>>

CallRemoveFavorite(gameId) ==
  /\ favorites' = removeFavorite(favorites, gameId)
  /\ favCalls' = [op |-> "remove", id |-> gameId, before |-> favorites,
                  added |-> favCalls.added \ {gameId}]
  /\ UNCHANGED <<serverVars, scrollVars, storageVars, widgetVars, cacheVars>>

FavoritesInit ==
  /\ favorites = << >>
  /\ favCalls = NoFavCall

(***************************************************************************)
(* The client caches of the wishlist and recently-played pages             *)
(* (app/wishlist/wishlist-data.tsx and its recently-played twin).          *)
(***************************************************************************)
CacheNames == {"wishlist", "recentlyPlayed"}
MaxFetches == 2
MaxCachedIds == 1

\* the module-level cache object; stale is history: data was set by a fetch
\* started before the object was created
EmptyCache ==
  [promise |-> FALSE, data |-> None, error |-> FALSE, stale |-> FALSE]

\* getFavoriteIds() / getRecentlyPlayedIds() at the start of a fetch
StoredIds(c) ==
  IF c = "wishlist" THEN favorites ELSE getRecentlyPlayedIds(recentlyPlayed)

\* getWishlistPromise() / getRecentlyPlayedPromise() called by a reader with
\* neither data nor a promise in the cache: a fetch starts.  With data or a
\* promise in the cache the call changes nothing.  fetching[c] holds the
\* fetches not yet settled, each with the ids it read and, as history,
\* whether the cache was invalidated since it started.
getPromise(c) ==
  /\ ~IsSome(cache[c].data)
  /\ ~cache[c].promise
  /\ Len(fetching[c]) < MaxFetches
  /\ cache' = [cache EXCEPT ![c].promise = TRUE]
  /\ fetching' = [fetching EXCEPT
                    ![c] = Append(@, [ids |-> StoredIds(c), stale |-> FALSE])]
  /\ UNCHANGED <<serverVars, scrollVars, storageVars, widgetVars,
                 favoriteVars>>

\* the i-th pending fetch of cache c settles: its then-callbacks write to
\* the cache object the module variable names at that moment
FetchSettled(c, i, ok) ==
  /\ i \in 1..Len(fetching[c])
  /\ ok \/ Len(fetching[c][i].ids) > 0
  /\ LET f == fetching[c][i]
     IN \E data \in {getGamesByIds(f.ids)} :
          LET found == {data[k].id : k \in 1..Len(data)}
              orderedGames == SelectSeq(f.ids, LAMBDA id : id \in found)
          IN cache' =
               IF ok
               THEN [cache EXCEPT ![c] = [promise |-> FALSE,
                                          data |-> Some(orderedGames),
                                          error |-> FALSE,
                                          stale |-> f.stale]]
               ELSE [cache EXCEPT ![c].error = TRUE, ![c].promise = FALSE]
  /\ fetching' = [fetching EXCEPT
                    ![c] = SubSeq(@, 1, i - 1) \o SubSeq(@, i + 1, Len(@))]
  /\ UNCHANGED <<serverVars, scrollVars, storageVars, widgetVars,
                 favoriteVars>>

\* invalidateWishlist() / invalidateRecentlyPlayed()
Invalidate(c) ==
  /\ cache' = [cache EXCEPT ![c] = EmptyCache]
  /\ fetching' = [fetching EXCEPT
                    ![c] = [k \in 1..Len(@) |-> [@[k] EXCEPT !.stale = TRUE]]]
  /\ UNCHANGED <<serverVars, scrollVars, storageVars, widgetVars,
                 favoriteVars>>

CacheInit ==
  /\ cache = [c \in CacheNames |-> EmptyCache]
  /\ fetching = [c \in CacheNames |-> << >>]

(***************************************************************************)
(* RatingInput (shared/ui/rating-input) under GamePageClient.  The widget  *)
(* state is rating and isSubmitting; its prop initialRating is             *)
(* ratingStats.userRating || 0 of the parent, 0 standing for null; the     *)
(* parent shows ratingStats.averageRating (in tenths) and totalRatings.    *)
(* submission is the handleClick call in progress with the                 *)
(* initialRating its render captured, and, as history, the rating shown    *)
(* before the click, how the last call ended, the statistics of its        *)
(* response and the number of clicks since the page loaded.  The widget    *)
(* is rendered once the parent has loaded the rating statistics.  The      *)
(* user's fingerprint is FpA and the page is that of game PageGame.        *)
(***************************************************************************)
Stars == 1..5
MaxClicks == 3
PageGame == 1
NoSubmission ==
  [active |-> FALSE, value |-> 0, initialRating |-> 0, before |-> 0,
   outcome |-> "none", clicks |-> 0, averageRating |-> 0,
   totalRatings |-> 0]
NoRatingStats ==
  [averageRating |-> 0, totalRatings |-> 0, userRating |-> 0,
   loaded |-> FALSE]

\* the statistics both rating endpoints return for a game: COALESCE(AVG, 0)
\* to one decimal, in tenths, and COUNT(*)
StatsOf(rows) ==
  [averageRating |-> IF rows = << >> THEN 0
                     ELSE ToFixed1(SumRatings(rows), Len(rows)),
   totalRatings |-> Len(rows)]

\* the ratings table after the upsert of POST /api/ratings/[gameId]
Upserted(gameId, fingerprint, value) ==
  LET rows == RowsOfPair(gameId, fingerprint)
  IN IF rows # << >> THEN UpdateRating(rows[1].id, value)
     ELSE InsertRating(gameId, fingerprint, value)

\* GamePageClient's GET /api/ratings/[gameId]?fingerprint= is answered (ok)
\* or fails: ratingStats is set from an ok response, isLoadingRating is
\* cleared and RatingInput mounts with useState(initialRating).  userRating
\* is in stars, 0 standing for null.
RatingFetched(ok) ==
  /\ ~ratingStats.loaded
  /\ LET stats == StatsOf(RowsOf(PageGame))
         mine == RowsOfPair(PageGame, FpA)
         userRating == IF mine = << >> THEN 0 ELSE mine[1].rating \div 10
         fetched == IF ok
                    THEN [averageRating |-> stats.averageRating,
                          totalRatings |-> stats.totalRatings,
                          userRating |-> userRating, loaded |-> TRUE]
                    ELSE [ratingStats EXCEPT !.loaded = TRUE]
     IN /\ ratingStats' = fetched
        /\ ratingInput' = [rating |-> fetched.userRating,
                           isSubmitting |-> FALSE]
  /\ UNCHANGED <<serverVars, scrollVars, storageVars, favoriteVars, cacheVars,
                 submission, posts>>

\* handleClick(value) with no test of isSubmitting
StarClick_noGuard(value) ==
  /\ ratingStats.loaded
  /\ submission.clicks < MaxClicks
  /\ ratingInput' = [rating |-> value, isSubmitting |-> TRUE]
  /\ submission' = [submission EXCEPT
                      !.active = TRUE, !.value = value,
                      !.initialRating = ratingStats.userRating,
                      !.before = ratingInput.rating,
                      !.outcome = "pending", !.clicks = @ + 1]
  /\ posts' = Append(posts, value)
  /\ UNCHANGED <<serverVars, scrollVars, storageVars, favoriteVars, cacheVars,
                 ratingStats>>

\* handleClick(value) up to its await: the request is sent
StarClick(value) ==
  /\ ratingStats.loaded
  /\ submission.clicks < MaxClicks
  /\ ~ratingInput.isSubmitting
  /\ ratingInput' = [rating |-> value, isSubmitting |-> TRUE]
  /\ submission' = [submission EXCEPT
                      !.active = TRUE, !.value = value,
                      !.initialRating = ratingStats.userRating,
                      !.before = ratingInput.rating,
                      !.outcome = "pending", !.clicks = @ + 1]
  /\ posts' = Append(posts, value)
  /\ UNCHANGED <<serverVars, scrollVars, storageVars, favoriteVars, cacheVars,
                 ratingStats>>

\* handleRatingUpdate(newAverage)
handleRatingUpdate(prev, newAverage) ==
  [prev EXCEPT !.averageRating = newAverage,
               !.totalRatings = prev.totalRatings
                                  + (IF prev.userRating # 0 THEN 0 ELSE 1)]

\* the server stores the rating and answers ok: onRatingSubmit with the
\* returned average, then finally.  submission keeps the statistics of the
\* response.
SubmitOk ==
  /\ submission.active
  /\ posts # << >>
  /\ LET stored == Upserted(PageGame, FpA, 10 * posts[1])
         stats == StatsOf(SelectSeq(stored, LAMBDA r : r.gameId = PageGame))
     IN /\ ratings' = stored
        /\ ratingStats' = handleRatingUpdate(ratingStats, stats.averageRating)
        /\ submission' = [submission EXCEPT
                            !.active = FALSE, !.outcome = "ok",
                            !.averageRating = stats.averageRating,
                            !.totalRatings = stats.totalRatings]
  /\ ratingInput' = [ratingInput EXCEPT !.isSubmitting = FALSE]
  /\ posts' = Tail(posts)
  /\ UNCHANGED <<queryVars, pc, hreq, existing, hresp, latest, limiterVars,
                 scrollVars, storageVars, favoriteVars, cacheVars>>

\* a response that is not ok, or fetch rejecting: the revert, then finally
SubmitFailed ==
  /\ submission.active
  /\ posts # << >>
  /\ ratingInput' = [rating |-> submission.initialRating,
                     isSubmitting |-> FALSE]
  /\ submission' = [submission EXCEPT !.active = FALSE,
                                      !.outcome = "failed"]
  /\ posts' = Tail(posts)
  /\ UNCHANGED <<serverVars, scrollVars, storageVars, favoriteVars, cacheVars,
                 ratingStats>>

\* another user rates the game of the page
OtherUserRates(value) ==
  /\ ratings' = Upserted(PageGame, FpB, 10 * value)
  /\ UNCHANGED <<queryVars, pc, hreq, existing, hresp, latest, limiterVars,
                 clientVars>>

\* the game page is loaded again once no submission is pending
PageReload ==
  /\ ratingStats.loaded
  /\ ~submission.active
  /\ ratingStats' = NoRatingStats
  /\ ratingInput' = [rating |-> 0, isSubmitting |-> FALSE]
  /\ submission' = NoSubmission
  /\ UNCHANGED <<serverVars, scrollVars, storageVars, favoriteVars, cacheVars,
                 posts>>

WidgetInit ==
  /\ ratingStats = NoRatingStats
  /\ ratingInput = [rating |-> 0, isSubmitting |-> FALSE]
  /\ submission = NoSubmission
  /\ posts = << >>

ClientInit ==
  ScrollInit /\ StorageInit /\ WidgetInit /\ FavoritesInit /\ CacheInit

(***************************************************************************)
(* Ingestion: the offline process that fills the tables.                   *)
(***************************************************************************)
Idle == req.op = "none"

InsertGame(id) ==
  /\ Idle
  /\ Len(games) < MaxGames
  /\ id \notin {games[i].id : i \in 1..Len(games)}
  /\ games' = Append(games, [id |-> id, title |-> TitleOf(id)])
  /\ UNCHANGED <<categories, gameCategories, req, resp>>

InsertGameCategory(gid, cid, max) ==
  /\ Idle
  /\ Len(gameCategories) < max
  /\ gid \in {games[i].id : i \in 1..Len(games)}
  /\ gameCategories' =
       Append(gameCategories, [gameId |-> gid, categoryId |-> cid])
  /\ UNCHANGED <<games, categories, req, resp>>

\* one round of the ingestion loop for a game not yet in the table: the
\* game row, then one link row for each of its genres
IngestGame(id, genres) ==
  /\ Idle
  /\ Len(games) < MaxGames
  /\ id \notin {games[i].id : i \in 1..Len(games)}
  /\ games' = Append(games, [id |-> id, title |-> TitleOf(id)])
  /\ gameCategories' =
       gameCategories \o [i \in 1..Len(genres) |->
                            [gameId |-> id, categoryId |-> genres[i]]]
  /\ UNCHANGED <<categories, req, resp>>

(***************************************************************************)
(* Calls of the query layer: a call records its arguments in req and its   *)
(* result, as a record, in resp; Return hands the result to the caller.    *)
(***************************************************************************)
\* the sequences over S of length at most n
RECURSIVE SeqsUpTo(_, _)
SeqsUpTo(S, n) ==
  IF n = 0 THEN {<< >>}
  ELSE LET shorter == SeqsUpTo(S, n - 1)
       IN shorter \cup {Append(q, x) : q \in shorter, x \in S}

IdLists == SeqsUpTo(GameIds \cup {AbsentId}, MaxIds)

SearchInputs ==
  {None, Some(<< >>), Some(<<"s">>), Some(<<"u", "s">>), Some(<<"_">>)}

CategoryInputs ==
  {None, Some(<< >>), Some(<<"puzzle">>), Some(<<"puzzle", "action">>),
   Some(<<"strategy">>), Some(<<"all">>), Some(<<"">>)}

LimitInputs == {1, 2}

CallGetGamesByIds(ids) ==
  /\ Idle
  /\ req' = [op |-> "getGamesByIds", ids |-> ids]
  /\ resp' = Some([games |-> getGamesByIds(ids)])
  /\ UNCHANGED dataVars

CallGetGames(search, categoryFilter, page, limit) ==
  /\ Idle
  /\ req' = [op |-> "getGames", search |-> search,
             categories |-> categoryFilter, page |-> page, limit |-> limit]
  /\ resp' = Some(getGames(search, categoryFilter, page, limit))
  /\ UNCHANGED dataVars

CallAllPages(search, categoryFilter, limit) ==
  /\ Idle
  /\ LET total == getGames(search, categoryFilter, 1, limit).totalCount
         pages == CeilDiv(total, limit)
     IN /\ req' = [op |-> "allPages", search |-> search,
                   categories |-> categoryFilter, limit |-> limit]
        /\ resp' = Some([games |-> ConcatPages(search, categoryFilter,
                                               limit, pages),
                         totalCount |-> total, pages |-> pages])
  /\ UNCHANGED dataVars

Return ==
  /\ ~Idle
  /\ req' = [op |-> "none"]
  /\ resp' = None
  /\ UNCHANGED dataVars

QInit ==
  /\ RatingsInit
  /\ LimiterInit
  /\ ClientInit
  /\ games = << >>
  /\ categories = CategoryRows
  /\ gameCategories = << >>
  /\ req = [op |-> "none"]
  /\ resp = None

QNext ==
  /\ \/ \E id \in GameIds : InsertGame(id)
     \/ \E gid \in GameIds, cid \in CategoryIds :
           InsertGameCategory(gid, cid, MaxLinks)
     \/ \E ids \in IdLists : CallGetGamesByIds(ids)
     \/ \E s \in SearchInputs, c \in CategoryInputs, p \in 1..MaxPage,
           l \in LimitInputs : CallGetGames(s, c, p, l)
     \/ \E s \in SearchInputs, c \in CategoryInputs, l \in LimitInputs :
           CallAllPages(s, c, l)
     \/ Return
  /\ UNCHANGED <<ratingVars, limiterVars, clientVars>>

Spec == QInit /\ [][QNext]_vars

(***************************************************************************)
(* The GET /games endpoint over a catalogue of more than MAX_LIMIT games.  *)
(***************************************************************************)
Catalogue(n) == [i \in 1..n |-> [id |-> i, title |-> TitleOf(i)]]

PageParams == {None, Some(1), Some(2)}
LimitParams ==
  {None, Some(1), Some(MAX_LIMIT), Some(MAX_LIMIT + 1), Some(5 * MAX_LIMIT)}
QParams == {None, Some(<< >>), Some(<<"s">>), Some(<<"_">>)}
CategoriesParams ==
  {None, Some(<< >>), Some(<<"all">>), Some(<<"puzzle">>),
   Some(<<"puzzle", ",", "action">>), Some(<<",", "puzzle">>),
   Some(<<"strategy">>)}

HttpGetGames(pageParam, limitParam, qParam, categoriesParam) ==
  /\ Idle
  /\ req' = [op |-> "GET /games", pageParam |-> pageParam,
             limitParam |-> limitParam, qParam |-> qParam,
             categoriesParam |-> categoriesParam]
  /\ resp' = Some(GET_games(pageParam, limitParam, qParam, categoriesParam))
  /\ UNCHANGED dataVars

HInit ==
  /\ RatingsInit
  /\ LimiterInit
  /\ ClientInit
  /\ games \in {Catalogue(MaxGames), Catalogue(MAX_LIMIT + 1)}
  /\ categories = CategoryRows
  /\ gameCategories = << [gameId |-> 1, categoryId |-> 1],
                         [gameId |-> 2, categoryId |-> 2],
                         [gameId |-> 2, categoryId |-> 1] >>
  /\ req = [op |-> "none"]
  /\ resp = None

HNext ==
  /\ \/ \E p \in PageParams, l \in LimitParams, q \in QParams,
           c \in CategoriesParams : HttpGetGames(p, l, q, c)
     \/ Return
  /\ UNCHANGED <<ratingVars, limiterVars, clientVars>>

SpecHttp == HInit /\ [][HNext]_vars

(***************************************************************************)
(* Related games over a fixed catalogue whose link table grows.            *)
(***************************************************************************)
CallGetRelatedGames(gameId, limit) ==
  /\ Idle
  /\ req' = [op |-> "getRelatedGames", gameId |-> gameId, limit |-> limit]
  /\ resp' = Some([games |-> getRelatedGames(gameId, limit)])
  /\ UNCHANGED dataVars

RInit ==
  /\ RatingsInit
  /\ LimiterInit
  /\ ClientInit
  /\ games = Catalogue(MaxGames)
  /\ categories = CategoryRows
  /\ gameCategories = << >>
  /\ req = [op |-> "none"]
  /\ resp = None

RNext ==
  /\ \/ \E gid \in GameIds, cid \in CategoryIds :
           InsertGameCategory(gid, cid, MaxRelatedLinks)
     \/ \E g \in GameIds, l \in LimitInputs : CallGetRelatedGames(g, l)
     \/ Return
  /\ UNCHANGED <<ratingVars, limiterVars, clientVars>>

SpecRelated == RInit /\ [][RNext]_vars

(***************************************************************************)
(* The rate limiter on its own: two clients, the strict preset.            *)
(***************************************************************************)
QueryIdle ==
  /\ games = Catalogue(MaxGames)
  /\ categories = CategoryRows
  /\ gameCategories = << >>
  /\ req = [op |-> "none"]
  /\ resp = None

LInit == QueryIdle /\ RatingsInit /\ LimiterInit /\ ClientInit

LNext ==
  \/ \E headers \in {ForwardedHeaders, RealIpHeaders, NoHeaders} :
       GatedRequest(headers, STRICT_MAX)
  \/ \E d \in {1, WindowMs} : Tick(d)
  \/ Sweep
  \/ Return /\ UNCHANGED <<ratingVars, limiterVars, clientVars>>

SpecLimiter == LInit /\ [][LNext]_vars

(***************************************************************************)
(* The limiter next to its copy without the clean-up timer: two clients    *)
(* of an endpoint with the strict allowance, time passing, the timer       *)
(* firing at any moment.                                                   *)
(***************************************************************************)
SwNext ==
  \/ \E headers \in {RealIpHeaders, NoHeaders} :
       ObservedRequest(headers, STRICT_MAX)
  \/ \E d \in {1, WindowMs} : Tick(d)
  \/ Sweep
  \/ Return /\ UNCHANGED <<ratingVars, limiterVars, clientVars>>

SpecSweep == LInit /\ [][SwNext]_vars

(***************************************************************************)
(* The limiter as seen by clients with and without proxy headers.          *)
(***************************************************************************)
KNext ==
  \/ \E headers \in {ForwardedHeaders, RealIpHeaders, NoHeaders} :
       KeyedRequest(headers, STRICT_MAX)
  \/ \E d \in {1, WindowMs} : Tick(d)
  \/ Sweep
  \/ Return /\ UNCHANGED <<ratingVars, limiterVars, clientVars>>

SpecKeys == LInit /\ [][KNext]_vars

(***************************************************************************)
(* The two rating endpoints as seen by the limiter: POST is wrapped with   *)
(* the strict preset and GET with the moderate one, over the one map.      *)
(***************************************************************************)
PresetOf(endpoint) ==
  IF endpoint = "POST /api/ratings" THEN STRICT_MAX ELSE MODERATE_MAX

\* a request reaches the wrapper of the endpoint; req keeps, from the
\* history, how many requests the client made to this endpoint earlier in
\* the window
EndpointRequest(headers, endpoint) ==
  /\ req.op = "none"
  /\ LET identifier == getClientIdentifier(headers)
         rl == rateLimit(rateLimitStore, identifier, now, PresetOf(endpoint))
         w == window[identifier]
     IN /\ rateLimitStore' = rl.store
        /\ window' = [window EXCEPT ![identifier] =
                        WindowAfter(w, now, rl.allowed)]
        /\ made' = [made EXCEPT ![identifier] =
                      MadeAfter(@, w, now, endpoint, PresetOf(endpoint))]
        /\ req' = [op |-> "endpoint", identifier |-> identifier,
                   endpoint |-> endpoint, at |-> now,
                   priorSame |-> IF InWindow(w, now)
                                 THEN made[identifier][endpoint] ELSE 0]
        /\ resp' = Some([status |-> IF rl.allowed THEN 200 ELSE 429,
                         passed |-> rl.allowed,
                         retryAfter |-> rl.retryAfter])
  /\ UNCHANGED <<clientVars, dataVars, ratingVars, now, ticks, unswept>>

ENext ==
  \/ \E e \in Endpoints : EndpointRequest(NoHeaders, e)
  \/ Return /\ UNCHANGED <<ratingVars, limiterVars, clientVars>>

SpecEndpoints == LInit /\ [][ENext]_vars

(***************************************************************************)
(* POST /ratings handled one request at a time.                            *)
(***************************************************************************)
AllIdle == \A h \in Handlers : pc[h] = "idle"

SeqBodies ==
  {Body(Num(t), Str(f)) : t \in {10, 50}, f \in Fingerprints}
    \cup {Body(Num(60), Str(FpA))}

SNext ==
  \/ \E h \in Handlers, g \in RatingGames, body \in SeqBodies :
       AllIdle /\ PostArrive(h, NoHeaders, GameIdParam(g), body)
  \/ \E h \in Handlers : PostSelect(h)
  \/ \E h \in Handlers : PostWrite(h)
  \/ \E h \in Handlers : PostStats(h)
  \/ \E h \in Handlers : PostReturn(h)

SpecRatingsSeq == LInit /\ [][SNext]_vars

(***************************************************************************)
(* POST /ratings handled concurrently: the steps of the handlers           *)
(* interleave at their awaits.                                             *)
(***************************************************************************)
ConcBodies == {Body(Num(t), Str(f)) : t \in {10, 50}, f \in Fingerprints}

CNext ==
  \/ \E h \in Handlers, body \in ConcBodies :
       PostArrive(h, NoHeaders, GameIdParam(1), body)
  \/ \E h \in Handlers : PostSelect(h)
  \/ \E h \in Handlers : PostWrite(h)
  \/ \E h \in Handlers : PostStats(h)
  \/ \E h \in Handlers : PostReturn(h)

SpecRatings == LInit /\ [][CNext]_vars

(***************************************************************************)
(* POST /ratings with every kind of body.                                  *)
(***************************************************************************)
RatingValues ==
  {Num(0), Num(10), Num(25), Num(30), Num(50), Num(51), Num(60), Str(<<"3">>),
   Missing}
FingerprintValues == {Str(FpA), Str(<< >>), Num(10), Missing}
ValidationBodies ==
  {Body(r, f) : r \in RatingValues, f \in FingerprintValues}
    \cup {MalformedBody}

VNext ==
  \/ \E h \in Handlers, p \in {GameIdParam(1), NotAGameId},
        body \in ValidationBodies :
       AllIdle /\ PostArrive(h, NoHeaders, p, body)
  \/ \E h \in Handlers : PostSelect(h)
  \/ \E h \in Handlers : PostWrite(h)
  \/ \E h \in Handlers : PostStats(h)
  \/ \E h \in Handlers : PostReturn(h)

SpecValidation == LInit /\ [][VNext]_vars

(***************************************************************************)
(* getGamesByIds on its own, over every order of the games table.          *)
(***************************************************************************)
GenresOf(id) ==
  CASE id = 1 -> <<1>>
    [] id = 2 -> <<1, 2>>
    [] id = 3 -> << >>
    [] OTHER -> <<2>>

BNext ==
  /\ \/ \E id \in GameIds : IngestGame(id, GenresOf(id))
     \/ \E ids \in IdLists : CallGetGamesByIds(ids)
     \/ Return
  /\ UNCHANGED <<ratingVars, limiterVars, clientVars>>

SpecByIds == QInit /\ [][BNext]_vars

(***************************************************************************)
(* Walking the pages of getGames, over every catalogue.                    *)
(***************************************************************************)
GenreLists == {<< >>, <<1>>, <<2>>, <<1, 2>>}
PageSearchInputs == {None, Some(<< >>), Some(<<"s">>), Some(<<"_">>)}
PageCategoryInputs ==
  {None, Some(<< >>), Some(<<"puzzle">>), Some(<<"puzzle", "action">>),
   Some(<<"strategy">>)}

PNext ==
  /\ \/ \E id \in GameIds, genres \in GenreLists : IngestGame(id, genres)
     \/ \E s \in PageSearchInputs, c \in PageCategoryInputs,
           l \in LimitInputs : CallAllPages(s, c, l)
     \/ Return
  /\ UNCHANGED <<ratingVars, limiterVars, clientVars>>

SpecPages == QInit /\ [][PNext]_vars

(***************************************************************************)
(* Error responses of the four endpoints (shared/lib/errors.ts,            *)
(* shared/lib/api-handler.ts and the routes).  A response is its status,   *)
(* the keys of its JSON body, and the code and error fields of the body.   *)
(***************************************************************************)
AppError(name, code, statusCode, details) ==
  [app |-> TRUE, name |-> name, code |-> code, statusCode |-> statusCode,
   details |-> details]
BadRequestError(details) ==
  AppError("BadRequestError", "BAD_REQUEST", 400, details)
ValidationError(details) ==
  AppError("ValidationError", "VALIDATION_ERROR", 400, details)
RateLimitError(details) ==
  AppError("RateLimitError", "RATE_LIMIT_EXCEEDED", 429, details)
DatabaseError(details) ==
  AppError("DatabaseError", "DATABASE_ERROR", 500, details)
InternalServerError(details) ==
  AppError("InternalServerError", "INTERNAL_SERVER_ERROR", 500, details)
\* what the database driver throws
DriverError ==
  [app |-> FALSE, name |-> "Error", code |-> "", statusCode |-> 0,
   details |-> FALSE]

\* NextResponse.json(data, {status}); JSON.stringify drops undefined details
JsonResponse(status, keys, code, error) ==
  [status |-> status, keys |-> keys, code |-> code, error |-> error]
toJSON(e) ==
  JsonResponse(e.statusCode,
               {"error", "code", "message", "timestamp"}
                 \cup (IF e.details THEN {"details"} ELSE {}),
               e.code, e.name)

Returned(response) ==
  [threw |-> FALSE, error |-> DriverError, response |-> response]
Thrown(e) ==
  [threw |-> TRUE, error |-> e, response |-> JsonResponse(0, {}, "", "")]

withErrorHandler(outcome) ==
  IF ~outcome.threw THEN outcome.response
  ELSE IF outcome.error.app THEN toJSON(outcome.error)
  ELSE toJSON(InternalServerError(FALSE))

\* GET /api/games: no wrapper, its own try/catch around the whole body
GET_games_response(dbOk) ==
  IF dbOk THEN JsonResponse(200, {"games", "pagination"}, "", "")
  ELSE JsonResponse(500, {"error"}, "", "Failed to fetch games")

\* GET /api/games/by-ids; idsParam is the list of the comma-separated
\* entries, each digits or not
GET_byIds_response(idsParam, dbOk) ==
  withErrorHandler(
    IF idsParam = None \/ idsParam = Some(<< >>)
    THEN Thrown(BadRequestError(FALSE))
    ELSE IF SelectSeq(idsParam[1], LAMBDA x : x.digits) = << >>
    THEN Thrown(BadRequestError(FALSE))
    ELSE IF ~dbOk THEN Thrown(DatabaseError(TRUE))
    ELSE Returned(JsonResponse(200, {"games"}, "", "")))

\* GET and POST /api/ratings/[gameId] after the rate limit has let the
\* request through
Ratings_outcome(endpoint, gameIdParam, inputOk, dbOk) ==
  IF ~validateParams(gameIdParam) THEN Thrown(ValidationError(TRUE))
  ELSE IF ~inputOk THEN Thrown(ValidationError(TRUE))
  ELSE IF ~dbOk THEN Thrown(DatabaseError(TRUE))
  ELSE Returned(JsonResponse(200,
         {"gameId", "averageRating", "totalRatings", "userRating"}
           \cup (IF endpoint = "POST /api/ratings" THEN {"success"}
                 ELSE {}), "", ""))

\* a request to GET /api/games or GET /api/games/by-ids
HttpCatalogue(endpoint, idsParam, dbOk) ==
  /\ req.op = "none"
  /\ req' = [op |-> "http", endpoint |-> endpoint,
             cause |-> IF endpoint = "GET /api/games/by-ids"
                          /\ GET_byIds_response(idsParam, TRUE).status # 200
                       THEN "input"
                       ELSE IF ~dbOk THEN "database" ELSE "none"]
  /\ resp' = Some(IF endpoint = "GET /api/games"
                  THEN GET_games_response(dbOk)
                  ELSE GET_byIds_response(idsParam, dbOk))
  /\ UNCHANGED <<clientVars, dataVars, ratingVars, limiterVars>>

\* a request to a rating endpoint, handled to its end; a POST that gets
\* through writes its row
HttpRatings(endpoint, headers, gameIdParam, body, dbOk) ==
  /\ req.op = "none"
  /\ LET identifier == getClientIdentifier(headers)
         rl == rateLimit(rateLimitStore, identifier, now, PresetOf(endpoint))
         w == window[identifier]
         inputOk == endpoint = "GET /api/ratings" \/ validateBody(body)
         outcome == IF ~rl.allowed THEN Thrown(RateLimitError(TRUE))
                    ELSE Ratings_outcome(endpoint, gameIdParam, inputOk, dbOk)
         rows == RowsOfPair(gameIdParam.value, body.fingerprint.text)
     IN /\ rateLimitStore' = rl.store
        /\ window' = [window EXCEPT ![identifier] =
                        WindowAfter(w, now, rl.allowed)]
        /\ made' = [made EXCEPT ![identifier] =
                      MadeAfter(@, w, now, endpoint, PresetOf(endpoint))]
        /\ req' = [op |-> "http", endpoint |-> endpoint,
                   cause |-> IF ~rl.allowed THEN "rateLimit"
                             ELSE IF ~(validateParams(gameIdParam) /\ inputOk)
                             THEN "input"
                             ELSE IF ~dbOk THEN "database" ELSE "none"]
        /\ resp' = Some(withErrorHandler(outcome))
        /\ ratings' =
             IF outcome.threw \/ endpoint = "GET /api/ratings" THEN ratings
             ELSE IF rows # << >>
             THEN UpdateRating(rows[1].id, body.rating.tenths)
             ELSE InsertRating(gameIdParam.value, body.fingerprint.text,
                               body.rating.tenths)
  /\ UNCHANGED <<clientVars, dataVars, pc, hreq, existing, hresp, latest, now,
                 ticks, unswept>>

IdsParams ==
  {None, Some(<< >>), Some(<<NotAGameId>>),
   Some(<<GameIdParam(1), NotAGameId, GameIdParam(2)>>)}

XNext ==
  \/ \E dbOk \in BOOLEAN : HttpCatalogue("GET /api/games", None, dbOk)
  \/ \E ids \in IdsParams, dbOk \in BOOLEAN :
       HttpCatalogue("GET /api/games/by-ids", ids, dbOk)
  \/ \E e \in Endpoints, p \in {GameIdParam(1), NotAGameId},
        body \in {Body(Num(30), Str(FpA)), Body(Num(50), Str(FpA)),
                  MalformedBody},
        dbOk \in BOOLEAN :
       HttpRatings(e, NoHeaders, p, body, dbOk)
  \/ Return /\ UNCHANGED <<ratingVars, limiterVars, clientVars>>

SpecErrors == LInit /\ [][XNext]_vars

(***************************************************************************)
(* POST /api/ratings/[gameId] behind its limiter: two clients submitting   *)
(* valid ratings for one game as time passes.                              *)
(***************************************************************************)
JNext ==
  \/ \E headers \in {RealIpHeaders, NoHeaders}, t \in {10, 50} :
       HttpRatings("POST /api/ratings", headers, GameIdParam(1),
                   Body(Num(t), Str(FpA)), TRUE)
  \/ \E d \in {1, WindowMs} : Tick(d)
  \/ Sweep
  \/ Return /\ UNCHANGED <<ratingVars, limiterVars, clientVars>>

SpecRejected == LInit /\ [][JNext]_vars

(***************************************************************************)
(* The infinite-scroll list in the browser.                                *)
(***************************************************************************)
INext ==
  /\ \/ SentinelVisible
     \/ Rerender
     \/ \E i \in 1..MaxInflight : FetchResolved(i)
     \/ \E i \in 1..MaxInflight : FetchFailed(i)
     \/ \E f \in FilterSets : FilterChange(f)
  /\ UNCHANGED <<serverVars, storageVars, widgetVars, favoriteVars, cacheVars>>

SpecScroll == LInit /\ [][INext]_vars

(***************************************************************************)
(* The list under one unchanging filter set.  React renders after every    *)
(* state update, every fetchMore call settles, and the sentinel keeps      *)
(* becoming visible to the observer.                                       *)
(***************************************************************************)
NotScroll ==
  UNCHANGED <<serverVars, storageVars, widgetVars, favoriteVars, cacheVars>>

FetchSettles ==
  /\ \E i \in 1..MaxInflight : FetchResolved(i) \/ FetchFailed(i)
  /\ NotScroll

TNext ==
  \/ SentinelVisible /\ NotScroll
  \/ Rerender /\ NotScroll
  \/ \E i \in 1..MaxInflight : FetchResolved(i) /\ NotScroll
  \/ \E i \in 1..MaxInflight : FetchFailed(i) /\ NotScroll

SpecScrollFair ==
  /\ LInit
  /\ [][TNext]_vars
  /\ WF_vars(Rerender /\ NotScroll)
  /\ WF_vars(FetchSettles)
  /\ SF_vars(SentinelVisible /\ NotScroll)

(***************************************************************************)
(* The recently-played list: game pages viewed one after another, games    *)
(* already viewed among them (the first viewed, the latest, the oldest     *)
(* kept).                                                                  *)
(***************************************************************************)
ViewInit ==
  /\ games = Catalogue(MaxViewedIds)
  /\ categories = CategoryRows
  /\ gameCategories = << >>
  /\ req = [op |-> "none"]
  /\ resp = None
  /\ RatingsInit /\ LimiterInit /\ ClientInit

RepeatIds ==
  IF recentlyPlayed = << >> THEN {}
  ELSE {1, recentlyPlayed[1].id, recentlyPlayed[Len(recentlyPlayed)].id}

VwNext ==
  \/ ViewGame(viewed.distinct + 1)
  \/ \E gameId \in RepeatIds : ViewGame(gameId)

SpecRecent == ViewInit /\ [][VwNext]_vars

(***************************************************************************)
(* The recently-played page: games viewed one after another as time        *)
(* passes, and the page opened in between.                                 *)
(***************************************************************************)
MaxPageViews == 12

RpNext ==
  \/ viewed.distinct < MaxPageViews /\ ViewGame(viewed.distinct + 1)
  \/ \E ok \in BOOLEAN : OpenRecentlyPlayed(ok)
  \/ Tick(1)

SpecRecentPage == ViewInit /\ [][RpNext]_vars

(***************************************************************************)
(* The recently-played list under the browser's clock: games viewed one    *)
(* after another, the first one again, within one millisecond or not,      *)
(* and the clock corrected in between.                                     *)
(***************************************************************************)
ONext ==
  \/ viewed.distinct < MaxPageViews /\ ViewGame(viewed.distinct + 1)
  \/ ViewGame(1)
  \/ Tick(1)
  \/ ClockSetBack(1)

SpecRecentOrder == ViewInit /\ [][ONext]_vars

(***************************************************************************)
(* The favorites list: games added to and removed from the wishlist.       *)
(***************************************************************************)
FNext ==
  \/ \E gameId \in FavoriteIds : CallAddFavorite(gameId)
  \/ \E gameId \in FavoriteIds : CallRemoveFavorite(gameId)

SpecFavorites == LInit /\ [][FNext]_vars

(***************************************************************************)
(* The wishlist and recently-played pages: readers asking for the cached   *)
(* list, fetches settling, invalidations, and the stored ids changing in   *)
(* between.                                                                *)
(***************************************************************************)
CacheNext ==
  \/ \E c \in CacheNames : getPromise(c)
  \/ \E c \in CacheNames : \E i \in 1..MaxFetches : \E ok \in BOOLEAN :
       FetchSettled(c, i, ok)
  \/ \E c \in CacheNames : Invalidate(c)
  \/ \E gameId \in 1..MaxCachedIds : CallAddFavorite(gameId)
  \/ \E gameId \in 1..MaxCachedIds : CallRemoveFavorite(gameId)
  \/ \E gameId \in 1..MaxCachedIds : ViewGame(gameId)

SpecCaches == LInit /\ [][CacheNext]_vars

(***************************************************************************)
(* The rating widget of a game page.                                       *)
(***************************************************************************)
WNext ==
  \/ \E ok \in BOOLEAN : RatingFetched(ok)
  \/ \E value \in Stars : StarClick(value)
  \/ SubmitOk
  \/ SubmitFailed
  \/ \E value \in {1, 5} : OtherUserRates(value)
  \/ PageReload

SpecRatingInput == LInit /\ [][WNext]_vars

(***************************************************************************)
(* Properties of the query layer.                                          *)
(***************************************************************************)
ExistingIds == {games[i].id : i \in 1..Len(games)}
IdsOf(gs) == [i \in 1..Len(gs) |-> gs[i].id]
NoDuplicates(s) == \A i, j \in 1..Len(s) : s[i] = s[j] => i = j

\* the category slugs a game is linked to
SlugsOf(gid) ==
  {c.slug : c \in {x \in Range(categories) :
     \E r \in Range(gameCategories) : r.gameId = gid /\ r.categoryId = x.id}}

\* C1: getGamesByIds(ids) returns the games whose ids exist, in the order of
\* the input list whatever the order of the rows in the store; absent ids
\* are dropped.
C1_InputOrderPreserved ==
  req.op = "getGamesByIds" =>
    LET want == SelectSeq(req.ids, LAMBDA id : id \in ExistingIds)
        got == resp[1].games
    IN /\ IdsOf(got) = want
       /\ \A i \in 1..Len(got) :
            /\ got[i].title = TitleOf(want[i])
            /\ {c.slug : c \in Range(got[i].categories)} = SlugsOf(want[i])

C1_Witness ==
  /\ req.op = "getGamesByIds"
  /\ req.ids = <<2, AbsentId, 1>>
  /\ IdsOf(games) = <<1, 3, 2>>
  /\ IdsOf(resp[1].games) = <<2, 1>>

\* a game satisfies the conditions getGames puts on the rows: the title is
\* LIKE %search% when a non-empty search is given, and the game is linked to
\* one of the listed slugs when a non-empty category list is given
Matches(g, search, categoryFilter) ==
  /\ (search # None /\ search # Some(<< >>)) =>
        like(g.title, <<"%">> \o search[1] \o <<"%">>)
  /\ (categoryFilter # None /\ categoryFilter # Some(<< >>)) =>
        SlugsOf(g.id) \cap Range(categoryFilter[1]) # {}

\* C2: for a fixed snapshot, filter and limit, pages 1..ceil(total/limit)
\* concatenated hold exactly totalCount games: every matching game once.
C2_PaginationCoverage ==
  req.op = "allPages" =>
    LET r == resp[1]
    IN /\ Len(r.games) = r.totalCount
       /\ NoDuplicates(IdsOf(r.games))
       /\ Range(IdsOf(r.games)) =
            {g.id : g \in {x \in Range(games) :
                             Matches(x, req.search, req.categories)}}

C2_Witness ==
  /\ req.op = "allPages"
  /\ req.limit = 1
  /\ req.categories = Some(<<"puzzle", "action">>)
  /\ resp[1].pages = 2
  /\ Len(games) = 3
  /\ Len(resp[1].games) = 2

\* the title contains the text, letter case aside
Contains(title, text) ==
  \E i \in 1..(Len(title) + 1) :
    /\ i + Len(text) - 1 <= Len(title)
    /\ \A k \in 1..Len(text) : Lower(title[i + k - 1]) = Lower(text[k])

\* C3: the games getGames matches are those of the reference filter: the
\* title contains the search text (when one is given) and the game is linked
\* to at least one listed category (when a category list is given).
C3_ReferenceFilter ==
  req.op = "allPages" =>
    Range(IdsOf(resp[1].games)) =
      {g.id : g \in {x \in Range(games) :
         /\ (req.search # None /\ req.search # Some(<< >>)) =>
               Contains(x.title, req.search[1])
         /\ (req.categories # None /\ req.categories # Some(<< >>)) =>
               SlugsOf(x.id) \cap Range(req.categories[1]) # {}}}

\* C4: an empty search string, and a category list holding "all" or an
\* empty string, give the result of the call without that parameter.
C4_SentinelsMeanNoFilter ==
  req.op = "getGames" =>
    LET search == IF req.search = Some(<< >>) THEN None ELSE req.search
        cats == IF /\ IsSome(req.categories)
                   /\ Range(req.categories[1]) \cap {"all", ""} # {}
                THEN None ELSE req.categories
    IN resp[1] = getGames(search, cats, req.page, req.limit)

\* C5: whatever limit is supplied, a response of GET /games holds at most
\* MAX_LIMIT games or is a validation error.
C5_PageSizeCapped ==
  req.op = "GET /games" =>
    \/ resp[1].status = 400
    \/ Len(resp[1].games) <= MAX_LIMIT

\* the number of categories a game shares with the target game
SharedCount(gid, target) == Cardinality(SlugsOf(gid) \cap SlugsOf(target))

\* C6: every game getRelatedGames returns shares at least as many
\* categories with the target as every candidate it leaves out.
C6_TopBySharedCount ==
  req.op = "getRelatedGames" =>
    LET returned == Range(IdsOf(resp[1].games))
        candidates == {g \in ExistingIds :
                         g # req.gameId /\ SharedCount(g, req.gameId) >= 1}
    IN \A r \in returned, c \in candidates \ returned :
         SharedCount(r, req.gameId) >= SharedCount(c, req.gameId)

(***************************************************************************)
(* Properties of the rating store.                                         *)
(***************************************************************************)
Quiescent == \A h \in Handlers : pc[h] \in {"idle", "done"}
Raters(g) == {f \in Fingerprints : latest[<<g, f>>] # 0}

RECURSIVE SumLatest(_, _)
SumLatest(g, fs) ==
  IF fs = {} THEN 0
  ELSE LET f == CHOOSE x \in fs : TRUE
       IN latest[<<g, f>>] + SumLatest(g, fs \ {f})

\* C7: when rating POSTs are processed one at a time, then between requests
\* the store holds exactly one row for each (game, fingerprint) pair that
\* has submitted and none for the others, the row holds the pair's latest
\* value, and a successful response reports as totalRatings the number of
\* distinct fingerprints that rated the game and as averageRating the
\* average of their latest values, to one decimal.
C7_OneRowPerPair ==
  Quiescent =>
    /\ \A g \in RatingGames, f \in Fingerprints :
         LET rows == RowsOfPair(g, f)
         IN IF latest[<<g, f>>] = 0 THEN rows = << >>
            ELSE Len(rows) = 1 /\ rows[1].rating = latest[<<g, f>>]
    /\ \A h \in Handlers :
         pc[h] = "done" /\ hresp[h].status = 200 =>
           LET g == hreq[h].gameIdParam.value
               n == Cardinality(Raters(g))
           IN /\ hresp[h].totalRatings = n
              /\ hresp[h].averageRating = (2 * SumLatest(g, Raters(g)) + n)
                                            \div (2 * n)

\* a repeat submission has been answered: the fingerprint that rated game 1
\* first has changed its rating to 1 after another fingerprint rated 5
C7_Witness ==
  \E h \in Handlers :
    /\ pc[h] = "done"
    /\ hresp[h].status = 200
    /\ existing[h] = 1
    /\ hresp[h].userRating = 10
    /\ hresp[h].totalRatings = 2
    /\ hresp[h].averageRating = 30
    /\ Len(ratings) = 2

\* C8: in every reachable state, whatever the interleaving of the steps of
\* concurrently handled POSTs, the store holds at most one row for each
\* (game, fingerprint) pair.
C8_AtMostOneRowPerPair ==
  \A g \in RatingGames, f \in Fingerprints : Len(RowsOfPair(g, f)) <= 1

IntegerRatingBody(body) ==
  /\ body.json
  /\ body.rating.type = "number"
  /\ body.rating.tenths \in {10, 20, 30, 40, 50}
  /\ body.fingerprint.type = "string"
  /\ body.fingerprint.text # << >>

\* C9: a POST whose body is not an integer rating 1..5 with a non-empty
\* string fingerprint is rejected on arrival (status 400, or 429 when the
\* rate limit rejects it first) and never reaches the store, and every
\* stored rating is one of the integers 1..5.
C9_OnlyIntegerRatingsAccepted ==
  /\ \A h \in Handlers :
       pc[h] # "idle" /\ ~IntegerRatingBody(hreq[h].body) =>
         pc[h] = "done" /\ hresp[h].status \in {400, 429}
  /\ \A i \in 1..Len(ratings) : ratings[i].rating \in {10, 20, 30, 40, 50}

(***************************************************************************)
(* Properties of the rate limiter.                                         *)
(***************************************************************************)
\* C10: a request of a key is passed to the handler if fewer than maxRequests
\* requests of the key were passed before it in the key's current window,
\* and is rejected with status 429 otherwise; a request that arrives when
\* the key has no window or its window has elapsed is passed and leaves the
\* key with count 1 and a window of WINDOW_SECONDS from its arrival.
C10_FixedWindow ==
  req.op = "rateLimit" =>
    /\ req.prior < req.maxRequests =>
         resp[1].passed /\ resp[1].status = 200
    /\ req.prior >= req.maxRequests =>
         ~resp[1].passed /\ resp[1].status = 429
    /\ req.opens =>
         /\ resp[1].passed
         /\ resp[1].entry.present
         /\ resp[1].entry.count = 1
         /\ resp[1].entry.resetTime = req.at + WINDOW_SECONDS * 1000

\* a request rejected at the last instant of a window that began at time 0
\* and has passed maxRequests requests
C10_Witness ==
  /\ req.op = "rateLimit"
  /\ req.at = WindowMs
  /\ req.prior = STRICT_MAX
  /\ ~req.opens
  /\ resp[1].status = 429

\* the allowance the API documents for each rating endpoint
DocumentedAllowance(endpoint) ==
  IF endpoint = "POST /api/ratings" THEN 10 ELSE 100

\* C11: a request to a rating endpoint is accepted whenever its client has
\* made fewer requests to that same endpoint in the current window than the
\* endpoint's documented allowance (10 for POST, 100 for GET), whatever the
\* client did on the other endpoint.
C11_PerEndpointAllowance ==
  req.op = "endpoint" =>
    (req.priorSame < DocumentedAllowance(req.endpoint) =>
       resp[1].passed /\ resp[1].status = 200)

\* C19: the key of a request is the first entry of x-forwarded-for, else
\* x-real-ip, else "unknown" (so all requests with neither header use the
\* one "unknown" entry); the request leaves the entries of all other keys
\* as they were, and it is accepted or rejected exactly as it would be had
\* no request under another key ever been made.
C19_KeysIsolated ==
  req.op = "keyed" =>
    LET key == IF req.headers.forwarded # << >>
               THEN req.headers.forwarded[1]
               ELSE IF IsSome(req.headers.realIp)
               THEN req.headers.realIp[1]
               ELSE "unknown"
        alone == [k \in ClientKeys |->
                    IF k = key THEN req.store[k] ELSE NoEntry]
    IN /\ req.identifier = key
       /\ \A k \in ClientKeys \ {key} : resp[1].store[k] = req.store[k]
       /\ resp[1].passed =
            rateLimit(alone, key, req.at, req.maxRequests).allowed
       /\ resp[1].status = IF resp[1].passed THEN 200 ELSE 429

\* a request of the client ip1 is passed while the "unknown" bucket is
\* exhausted in its running window
C19_Witness ==
  /\ req.op = "keyed"
  /\ req.identifier = "ip1"
  /\ req.headers = RealIpHeaders
  /\ req.store["unknown"].present
  /\ req.store["unknown"].count = STRICT_MAX
  /\ req.store["unknown"].resetTime >= req.at
  /\ resp[1].passed

(***************************************************************************)
(* Properties of the error responses.                                      *)
(***************************************************************************)
\* C12: every error response of the four endpoints has a body with the keys
\* error, code, message and timestamp (details optional), and its status
\* follows from the kind of error: 400 for bad input, 429 for the rate
\* limit, 500 for a database failure.
C12_ErrorEnvelope ==
  req.op = "http" /\ req.cause # "none" =>
    /\ {"error", "code", "message", "timestamp"} \subseteq resp[1].keys
    /\ resp[1].keys
         \subseteq {"error", "code", "message", "timestamp", "details"}
    /\ resp[1].status = CASE req.cause = "input" -> 400
                           [] req.cause = "rateLimit" -> 429
                           [] OTHER -> 500

(***************************************************************************)
(* Properties of InfiniteScroll.                                           *)
(***************************************************************************)
\* C13: at most one fetchMore call is in flight at any time.
C13_OneFetchInFlight == Len(inflight) <= 1

\* C14: after a filter change no item fetched for another filter set is in
\* items: every item belongs to the active filter set.
C14_NoStaleItems ==
  \A i \in 1..Len(items) : items[i].filters = filters

\* C15: once a fetchMore call has failed, and until the filters change,
\* hasMore is false, isLoading is clear, items and page are as the failure
\* left them, and no fetchMore call has been issued since.
C15_GivesUpAfterFailure ==
  failure.happened =>
    /\ ~hasMore
    /\ ~isLoading
    /\ curPage = failure.page
    /\ Len(items) = failure.len
    /\ \A i \in 1..Len(inflight) : ~inflight[i].afterFailure

RECURSIVE PagesUpTo(_, _)
PagesUpTo(f, p) ==
  IF p = 0 THEN << >> ELSE PagesUpTo(f, p - 1) \o PageItems(f, p)

\* C20: in every state items is initialItems followed by the results of
\* pages 2..page of the active filter set, in order, each once.
C20_PagesInOrder == items = PagesUpTo(filters, curPage)

(***************************************************************************)
(* Properties of the recently-played list.                                 *)
(***************************************************************************)
\* the ids s without id
WithoutId(s, id) == SelectSeq(s, LAMBDA x : x # id)
FirstN(s, n) == SubSeq(s, 1, Min(n, Len(s)))

\* C16: the stored list never has more than MAX_RECENTLY_PLAYED entries nor
\* an id twice, and after addRecentlyPlayed(id) it is the id followed by the
\* earlier list without the id, cut to MAX_RECENTLY_PLAYED: the id is at
\* the front, an id already present has moved there, and a new id added to
\* a full list has pushed out the last entry.
C16_BoundedDedupedNewestFirst ==
  /\ Len(recentlyPlayed) <= MAX_RECENTLY_PLAYED
  /\ NoDuplicates(ItemIds(recentlyPlayed))
  /\ viewed.id # 0 =>
       /\ ItemIds(recentlyPlayed)[1] = viewed.id
       /\ ItemIds(recentlyPlayed) =
            FirstN(<<viewed.id>> \o WithoutId(viewed.before, viewed.id),
                   MAX_RECENTLY_PLAYED)
       /\ (viewed.id \notin Range(viewed.before)
            /\ Len(viewed.before) = MAX_RECENTLY_PLAYED) =>
             ItemIds(recentlyPlayed) =
               <<viewed.id>>
                 \o SubSeq(viewed.before, 1, MAX_RECENTLY_PLAYED - 1)

\* games 1 to 21 viewed in turn, then game 1 again: 20 entries, game 1 at
\* the front, game 2 pushed out
C16_Witness ==
  /\ viewed.id = 1
  /\ viewed.distinct = MAX_RECENTLY_PLAYED + 1
  /\ Len(viewed.before) = MAX_RECENTLY_PLAYED
  /\ ItemIds(recentlyPlayed) =
       <<1>> \o [i \in 1..(MAX_RECENTLY_PLAYED - 1) |->
                  MAX_RECENTLY_PLAYED + 2 - i]

\* the most games the recently-played page is to list
PAGE_LIMIT == 10

\* C17: once more than 10 distinct game pages have been viewed, the
\* recently-played page lists at most 10 games.
C17_PageListsAtMostTen ==
  viewed.distinct > PAGE_LIMIT => Len(listed) <= PAGE_LIMIT

(***************************************************************************)
(* Properties of the rating widget.                                        *)
(***************************************************************************)
\* C18: when a submission has failed, input is enabled again and the rating
\* shown is the one that was shown immediately before the click.
C18_RollbackToPrevious ==
  submission.outcome = "failed" =>
    /\ ~ratingInput.isSubmitting
    /\ ratingInput.rating = submission.before

(***************************************************************************)
(* Further properties of the rate limiter.                                 *)
(***************************************************************************)
\* C21: a rejected request carries retryAfter = ceil((resetTime - now) /
\* 1000), and that is at least 1 and at most WINDOW_SECONDS, whenever the
\* rejection happens (the instant resetTime included).
C21_RetryAfterPositive ==
  (req.op = "rateLimit" /\ ~resp[1].passed) =>
    /\ resp[1].retryAfter = CeilDiv(resp[1].entry.resetTime - req.at, 1000)
    /\ resp[1].retryAfter >= 1
    /\ resp[1].retryAfter <= WINDOW_SECONDS

\* what C22 asks of a step
RejectedStep ==
  /\ (req.op = "none" /\ req'.op = "http" /\ req'.cause = "rateLimit") =>
       /\ rateLimitStore' = rateLimitStore
       /\ ratings' = ratings
       /\ resp'[1].status = 429
       /\ resp'[1].code = "RATE_LIMIT_EXCEEDED"
  /\ \A k \in ClientKeys :
       (/\ rateLimitStore[k].present
        /\ rateLimitStore'[k].present
        /\ rateLimitStore'[k].resetTime = rateLimitStore[k].resetTime) =>
         rateLimitStore'[k].count >= rateLimitStore[k].count
  /\ (req.op = "none" /\ req'.op = "http" /\ ratings' # ratings) =>
       req'.cause = "none"

\* C22: a request the limiter rejects leaves the map and the ratings table
\* as they were and is answered 429 without the handler running; and in
\* every step an entry that keeps its window keeps or raises its count.
C22_RejectedHasNoEffect == [][RejectedStep]_vars

\* a rejected submission of a client whose allowance is used up, with a
\* rating in the table
C22_Witness ==
  /\ req.op = "http"
  /\ req.cause = "rateLimit"
  /\ rateLimitStore["unknown"].present
  /\ rateLimitStore["unknown"].count = STRICT_MAX
  /\ Len(ratings) = 1

(***************************************************************************)
(* Further properties of the browser's stored lists.                       *)
(***************************************************************************)
\* C23: getRecentlyPlayedIds returns the stored ids in the order
\* addRecentlyPlayed stored them, which is most recently added first,
\* whatever timestamps the clock gave the adds.
C23_IdsByRecency ==
  getRecentlyPlayedIds(recentlyPlayed) = ItemIds(recentlyPlayed)

\* C24: the favorites list holds no id twice; an id is a favorite exactly
\* when the last call for it was addFavorite; adding an id that is present
\* changes nothing; and a call for one id leaves the other ids, and their
\* order, as they were.
C24_FavoritesIsASet ==
  /\ NoDuplicates(favorites)
  /\ \A id \in FavoriteIds :
       isFavorite(favorites, id) <=> id \in favCalls.added
  /\ favCalls.op # "none" =>
       WithoutId(favorites, favCalls.id) =
         WithoutId(favCalls.before, favCalls.id)
  /\ (favCalls.op = "add" /\ favCalls.id \in Range(favCalls.before)) =>
       favorites = favCalls.before

\* game 3 is added again to the favorites 2, 3, 1
C24_Witness ==
  /\ favCalls.op = "add"
  /\ favCalls.id = 3
  /\ favCalls.before = <<2, 3, 1>>
  /\ favorites = <<2, 3, 1>>

(***************************************************************************)
(* Further properties of the rating widget.                                *)
(***************************************************************************)
\* what C25 asks of a step
SerializedStep ==
  /\ Len(posts') <= 1
  /\ posts # << >> => posts' = posts \/ posts' = << >>
  /\ (posts # << >> /\ posts' = posts) => ratingInput' = ratingInput
  /\ ratingInput'.isSubmitting <=> posts' # << >>

\* C25: at most one rating POST of the widget is unanswered at any time:
\* while one is, input is disabled, no click sends another or changes the
\* rating shown, and the next request is sent only after the answer has
\* been handled, so requests are sent and answered in click order.
C25_SubmissionsSerialized == [][SerializedStep]_vars

\* a second submission is pending, sent after the first was answered
C25_Witness ==
  /\ posts = <<2>>
  /\ ratingInput.isSubmitting
  /\ submission.clicks = 2
  /\ submission.before = 4

\* C27: after a successful submission GamePageClient shows the totalRatings
\* and averageRating of the server's response to it.
C27_ShownStatsMatchServer ==
  submission.outcome = "ok" =>
    /\ ratingStats.averageRating = submission.averageRating
    /\ ratingStats.totalRatings = submission.totalRatings

(***************************************************************************)
(* Further properties of the query layer.                                  *)
(***************************************************************************)
\* C26: for one data snapshot and one filter, the totalCount getGames
\* returns is the same for every page: it is the one returned for page 1.
C26_TotalIndependentOfPage ==
  req.op = "getGames" =>
    resp[1].totalCount =
      getGames(req.search, req.categories, 1, req.limit).totalCount

\* C28: in the wishlist and recently-played caches, the data is never set
\* from a fetch started before an invalidation, and at most one by-ids fetch
\* per cache is in flight.
C28_InvalidationDiscardsOlder ==
  \A c \in CacheNames :
    /\ ~cache[c].stale
    /\ Cardinality({i \in 1..Len(fetching[c]) :
                      Len(fetching[c][i].ids) > 0}) <= 1

\* C29: the clean-up timer is unobservable: every request gets the decision
\* and the retryAfter it gets when the timer never fires, the timer having
\* removed only entries whose window is over.
C29_SweepUnobservable ==
  /\ \A k \in ClientKeys :
       \/ rateLimitStore[k] = unswept[k]
       \/ /\ ~rateLimitStore[k].present
          /\ unswept[k].present
          /\ unswept[k].resetTime < now
  /\ req.op = "observed" =>
       /\ resp[1].passed = resp[1].unsweptPassed
       /\ resp[1].retryAfter = resp[1].unsweptRetryAfter

\* a request of a key that used up its allowance, had its entry removed by
\* the timer, and is accepted into a new window
C29_Witness ==
  /\ req.op = "observed"
  /\ req.swept
  /\ req.before.count >= req.maxRequests
  /\ resp[1].passed
  /\ resp[1].unsweptPassed

\* the end of the list as the component shows it
EndReached == ~hasMore /\ ~isLoading
\* the model follows the list up to MaxScrollPage pages
PagesExhausted == curPage + Len(inflight) >= MaxScrollPage

\* C30: with the filters unchanged, every fetchMore call settling and the
\* sentinel becoming visible again and again, the list eventually reaches
\* hasMore = false with isLoading clear, and no fetchMore call is issued
\* after it has.
C30_ScrollTerminates ==
  /\ <>(EndReached \/ PagesExhausted)
  /\ [](\A i \in 1..Len(inflight) : ~inflight[i].afterEnd)

====
